---------------------------- MODULE Spec2Model ----------------------------
(***************************************************************************)
(* A model of stress-go: the size parser and orchestrator of main.go, the  *)
(* CPU burner of pkg/cpu, and the static and dynamic memory and storage    *)
(* load generators of pkg/memory and pkg/storage.                          *)
(*                                                                         *)
(* Strings are sequences of one-character strings.  Byte counts handed to  *)
(* the load generators are integers below 2^31; the parser's int64 result  *)
(* is kept in three limbs (see Int64) because a size such as "5T" does not *)
(* fit the model checker's integers.                                       *)
(***************************************************************************)
EXTENDS Integers, Sequences, FiniteSets, TLC

(***************************************************************************)
(* Bounds of the model.                                                    *)
(***************************************************************************)
\* longest size string the parser is given
MaxLen == 4
\* steady ticks a load generator handles before only cancellation remains
MaxTicks == 3

KB == 1024
MB == 1048576

(***************************************************************************)
(* Strings and numbers (main.go: parseSize and the library calls it makes) *)
(***************************************************************************)
\* the characters size strings are drawn from
Alphabet == {"0", "1", "5", ".", "%", "-", " ", "k", "M", "G", "T", "B", "X"}

DigitChars == {"0", "1", "2", "3", "4", "5", "6", "7", "8", "9"}

DigitVal(c) ==
    CASE c = "0" -> 0 [] c = "1" -> 1 [] c = "2" -> 2 [] c = "3" -> 3
      [] c = "4" -> 4 [] c = "5" -> 5 [] c = "6" -> 6 [] c = "7" -> 7
      [] c = "8" -> 8 [] c = "9" -> 9

RECURSIVE Pow10(_)
Pow10(n) == IF n = 0 THEN 1 ELSE 10 * Pow10(n - 1)

IsDigits(s) == \A i \in 1..Len(s) : s[i] \in DigitChars

\* the decimal value of a string of digits (0 for the empty string)
RECURSIVE DigitsValue(_)
DigitsValue(s) ==
    IF Len(s) = 0 THEN 0
    ELSE 10 * DigitsValue(SubSeq(s, 1, Len(s) - 1)) + DigitVal(s[Len(s)])

\* strings.TrimSpace
RECURSIVE TrimLeft(_)
TrimLeft(s) ==
    IF Len(s) > 0 /\ s[1] = " " THEN TrimLeft(Tail(s)) ELSE s

RECURSIVE TrimRight(_)
TrimRight(s) ==
    IF Len(s) > 0 /\ s[Len(s)] = " " THEN TrimRight(SubSeq(s, 1, Len(s) - 1)) ELSE s

TrimSpace(s) == TrimRight(TrimLeft(s))

\* strings.HasSuffix(s, "%") and strings.TrimSuffix(s, "%")
HasPercentSuffix(s) == Len(s) > 0 /\ s[Len(s)] = "%"

TrimPercentSuffix(s) == IF HasPercentSuffix(s) THEN SubSeq(s, 1, Len(s) - 1) ELSE s

\* strings.ToUpper
UpperChar(c) ==
    CASE c = "k" -> "K" [] c = "m" -> "M" [] c = "g" -> "G" [] c = "t" -> "T"
      [] c = "b" -> "B" [] c = "x" -> "X" [] OTHER -> c

ToUpper(s) == [i \in 1..Len(s) |-> UpperChar(s[i])]

DotPositions(s) == {i \in 1..Len(s) : s[i] = "."}

(***************************************************************************)
(* strconv.ParseFloat on the strings of the alphabet: an optional sign,    *)
(* then digits with at most one point and at least one digit ("5." and     *)
(* ".5" are accepted, "." is not).  The value is the exact rational        *)
(* (-1)^neg * num / den; exponents, hexadecimal floats, "inf" and "nan"    *)
(* need letters the alphabet does not hold.                                *)
(***************************************************************************)
FloatError == [ok |-> FALSE, neg |-> FALSE, num |-> 0, den |-> 1]

ParseUnsigned(s) ==
    LET dots == DotPositions(s) IN
    IF Cardinality(dots) > 1 THEN FloatError
    ELSE IF dots = {} THEN
        IF Len(s) > 0 /\ IsDigits(s)
        THEN [ok |-> TRUE, neg |-> FALSE, num |-> DigitsValue(s), den |-> 1]
        ELSE FloatError
    ELSE
        LET d == CHOOSE i \in dots : TRUE
            ip == SubSeq(s, 1, d - 1)
            fp == SubSeq(s, d + 1, Len(s))
        IN  IF IsDigits(ip) /\ IsDigits(fp) /\ Len(ip) + Len(fp) > 0
            THEN [ok |-> TRUE, neg |-> FALSE,
                  num |-> DigitsValue(ip \o fp), den |-> Pow10(Len(fp))]
            ELSE FloatError

ParseFloat(s) ==
    IF Len(s) > 0 /\ s[1] \in {"-", "+"}
    THEN LET f == ParseUnsigned(Tail(s)) IN [f EXCEPT !.neg = f.ok /\ s[1] = "-"]
    ELSE ParseUnsigned(s)

(***************************************************************************)
(* An int64 in sign and magnitude, the magnitude in three limbs:           *)
(* t * 2^40 + m * 2^20 + b with m, b < 2^20.  Zero is never negative.      *)
(***************************************************************************)
Int64(neg, t, m, b) == [neg |-> neg, t |-> t, m |-> m, b |-> b]

Int64OfNat(n) == Int64(FALSE, 0, n \div MB, n % MB)

Int64Neg(n) == Int64(n > 0, 0, n \div MB, n % MB)

IsNegative(v) == v.neg

\* an int64 that fits the model's integers
FitsInt(v) == v.t = 0 /\ v.m < 2048

ToInt(v) == (IF v.neg THEN -1 ELSE 1) * (v.m * MB + v.b)

\* one multiplication by 1024 of t*2^40 + m*2^20 + b + r/den
Mul1024(x, den) ==
    LET r1 == x.r * KB
        b1 == x.b * KB + r1 \div den
        m1 == x.m * KB + b1 \div MB
    IN  [t |-> x.t * KB + m1 \div MB, m |-> m1 % MB, b |-> b1 % MB, r |-> r1 % den]

RECURSIVE MulPow1024(_, _, _)
MulPow1024(x, den, k) == IF k = 0 THEN x ELSE MulPow1024(Mul1024(x, den), den, k - 1)

\* int64(value * float64(multiplier)) for value = num/den >= 0 and
\* multiplier = 1024^k: the conversion truncates
TruncScaled(num, den, k) ==
    LET q == num \div den
        x == MulPow1024([t |-> 0, m |-> q \div MB, b |-> q % MB, r |-> num % den], den, k)
    IN  Int64(FALSE, x.t, x.m, x.b)

\* int64(-percent) for percent = (-1)^neg * num/den in [0, 100]: truncation
\* toward zero; -0.0 negated is 0
NegTrunc(f) == IF f.neg THEN Int64OfNat(0) ELSE Int64Neg(f.num \div f.den)

(***************************************************************************)
(* The absolute sizes' pattern ^(\d+(?:\.\d+)?)\s*([KMGT]?B?)?$            *)
(***************************************************************************)
UnitStrings ==
    {<<>>, <<"B">>, <<"K">>, <<"K", "B">>, <<"M">>, <<"M", "B">>,
     <<"G">>, <<"G", "B">>, <<"T">>, <<"T", "B">>}

\* \d+(?:\.\d+)?
IsNumber(s) ==
    LET dots == DotPositions(s) IN
    IF dots = {} THEN Len(s) > 0 /\ IsDigits(s)
    ELSE /\ Cardinality(dots) = 1
         /\ LET d == CHOOSE i \in dots : TRUE IN
            /\ d > 1 /\ d < Len(s)
            /\ IsDigits(SubSeq(s, 1, d - 1))
            /\ IsDigits(SubSeq(s, d + 1, Len(s)))

IsSpaces(s) == \A i \in 1..Len(s) : s[i] = " "

\* the ways the pattern splits s into number, spaces and unit (at most one)
Splits(s) ==
    {p \in (0..Len(s)) \X (0..Len(s)) :
        /\ p[1] <= p[2]
        /\ IsNumber(SubSeq(s, 1, p[1]))
        /\ IsSpaces(SubSeq(s, p[1] + 1, p[2]))
        /\ SubSeq(s, p[2] + 1, Len(s)) \in UnitStrings}

\* re.FindStringSubmatch: matches[1] and matches[2], or no match
FindStringSubmatch(s) ==
    IF Splits(s) = {} THEN [matched |-> FALSE, number |-> <<>>, unit |-> <<>>]
    ELSE LET p == CHOOSE q \in Splits(s) : TRUE IN
         [matched |-> TRUE, number |-> SubSeq(s, 1, p[1]),
          unit |-> SubSeq(s, p[2] + 1, Len(s))]

\* the switch on the unit: the power of 1024, or -1 for the default case
UnitIndex(unit) ==
    CASE unit \in {<<>>, <<"B">>} -> 0
      [] unit \in {<<"K", "B">>, <<"K">>} -> 1
      [] unit \in {<<"M", "B">>, <<"M">>} -> 2
      [] unit \in {<<"G", "B">>, <<"G">>} -> 3
      [] unit \in {<<"T", "B">>, <<"T">>} -> 4
      [] OTHER -> -1

ParseOk(v) == [ok |-> TRUE, val |-> v, err |-> "none"]

ParseErr(e) == [ok |-> FALSE, val |-> Int64OfNat(0), err |-> e]

\* the percentage branch of parseSize
parsePercent(percentStr) ==
    LET percent == ParseFloat(percentStr) IN
    IF ~percent.ok THEN ParseErr("invalid percentage")
    ELSE IF (percent.neg /\ percent.num > 0) \/ percent.num > 100 * percent.den
         THEN ParseErr("percentage must be in range 0-100")
         ELSE ParseOk(NegTrunc(percent))

\* the absolute branch of parseSize
parseAbsolute(sizeStr) ==
    LET matches == FindStringSubmatch(ToUpper(sizeStr)) IN
    IF ~matches.matched THEN ParseErr("invalid size format")
    ELSE LET value == ParseFloat(matches.number)
             k == UnitIndex(matches.unit)
         IN  IF ~value.ok THEN ParseErr("parse float")
             ELSE IF k < 0 THEN ParseErr("unsupported unit")
             ELSE ParseOk(TruncScaled(value.num, value.den, k))

parseSize(str) ==
    LET sizeStr == TrimSpace(str) IN
    IF HasPercentSuffix(sizeStr)
    THEN parsePercent(TrimPercentSuffix(sizeStr))
    ELSE parseAbsolute(sizeStr)

(***************************************************************************)
(* State                                                                   *)
(***************************************************************************)
VARIABLES
    input,          \* the size string handed to parseSize (parser specification)
    parsed,         \* parseSize's result for it
    config,         \* main: the flags (timeout, cpu, memory, storage)
    mainPc,         \* main: where main is
    exitCode,       \* the process's exit code, -1 while it runs
    ctxCreated,     \* the shared context exists
    ctxDone,        \* the shared context is done (deadline or cancel())
    sigChan,        \* main: a signal is waiting in sigChan
    progPc,         \* showProgress: where the reporter is
    tickLimit,      \* the ticks each generator's ticker delivers in this run
    cpuPc,          \* CPU task: where cpu.GenerateLoad is
    coreCount,      \* cpu.GenerateLoad: the number of workers
    workers,        \* generateCoreLoad: where each worker is
    gomaxprocs,     \* the runtime's GOMAXPROCS (process-wide)
    oldMaxProcs,    \* cpu.GenerateLoad: the GOMAXPROCS it saved
    stoPc,          \* storage task: where storage.GenerateLoad is
    stoMode,        \* storage task: the generator GenerateLoad chose
    stoSize,        \* storage.GenerateLoad's size argument
    disk,           \* the files of the temporary directory: file number -> bytes
    tempDir,        \* the temporary directory exists
    currentFiles,   \* performDynamicStorageOperations: the held files, in order
    totalWritten,   \* performDynamicStorageOperations: the tracked held total
    fileCounter,    \* performDynamicStorageOperations: the next file's number
    stoTarget,      \* storage: targetSize / newTargetSize of the last calculation
    stoOp,          \* storage: what the last tick (or the initial phase) did
    stoLive,        \* storage: the last tick reached its read-then-append step
    stoRemoveErr,   \* storage: an os.Stat or os.Remove failed in the last tick
    stoTick,        \* storage: a tick is waiting in ticker.C
    stoTicks,       \* storage: ticks handled so far
    stoIdx,         \* performStorageOperations: files written in the write phase
    operationCount, \* performStorageOperations: the steady loop's counter
    memPc,          \* memory task: where memory.GenerateLoad is
    memMode,        \* memory task: the generator GenerateLoad chose
    memSize,        \* memory.GenerateLoad's size argument
    buffers,        \* generateDynamicLoad: the held buffers' lengths, in order
    totalAllocated, \* generateDynamicLoad: the tracked held total
    buffer,         \* generateStaticLoad: the buffer's length, -1 when nil
    gcPercent,      \* the runtime's GC percent (process-wide)
    oldGCPercent,   \* memory: the GC percent saved by the running generator
    memTarget,      \* memory: targetSize / newTargetSize of the last calculation
    memOp,          \* memory: what the last tick (or the initial phase) did
    memLive,        \* memory: the last tick reached its keep-active loop
    memTick,        \* memory: a tick is waiting in ticker.C
    memTicks,       \* memory: ticks handled so far
    external        \* bytes of the probed resource that other processes use

parseVars == <<input, parsed>>

stoVars == <<stoPc, stoMode, stoSize, disk, tempDir, currentFiles, totalWritten, fileCounter,
             stoTarget, stoOp, stoLive, stoRemoveErr, stoTick, stoTicks, stoIdx, operationCount>>

memVars == <<memPc, memMode, memSize, buffers, totalAllocated, buffer, gcPercent,
             oldGCPercent,
             memTarget, memOp, memLive, memTick, memTicks>>

mainVars == <<config, mainPc, exitCode, ctxCreated, sigChan, progPc, tickLimit>>

cpuVars == <<cpuPc, coreCount, workers, gomaxprocs, oldMaxProcs>>

vars == <<parseVars, mainVars, ctxDone, stoVars, memVars, cpuVars, external>>

\* the process is running: os.Exit has not been called
Running == exitCode = -1

\* runtime.NumCPU()
NumCPU == 2

\* the flags when no orchestrator runs
NoConfig == [timeout |-> "none", cpu |-> -1, memory |-> <<>>, storage |-> <<>>]

\* parsed before parseSize is called
NotParsed == [ok |-> FALSE, val |-> Int64OfNat(0), err |-> "not called"]

(***************************************************************************)
(* Helpers                                                                 *)
(***************************************************************************)
\* a * p / q truncated, for a >= 0, without leaving the checker's integers
MulDivTrunc(a, p, q) == (a \div q) * p + ((a % q) * p) \div q

RECURSIVE SumSeq(_)
SumSeq(s) == IF Len(s) = 0 THEN 0 ELSE s[1] + SumSeq(Tail(s))

EmptyDisk == [f \in {} |-> 0]

PutFile(d, f, size) == [x \in DOMAIN d \cup {f} |-> IF x = f THEN size ELSE d[x]]

RemoveFile(d, f) == [x \in DOMAIN d \ {f} |-> d[x]]

\* the sum of the sizes on disk of the files of a list
RECURSIVE SumFiles(_, _)
SumFiles(files, d) ==
    IF Len(files) = 0 THEN 0
    ELSE (IF files[1] \in DOMAIN d THEN d[files[1]] ELSE 0) + SumFiles(Tail(files), d)

(***************************************************************************)
(* pkg/storage                                                             *)
(***************************************************************************)
\* what getDiskFreeSpace can return: an error, or the free bytes
DiskFreeValues == {0, 500 * MB, 1000 * MB, 1500 * MB}

DiskProbes ==
    {[err |-> TRUE, free |-> 0]} \cup {[err |-> FALSE, free |-> f] : f \in DiskFreeValues}

\* how a writeFile call can end: done, os.Create fails, a Write fails part-way,
\* or the final Sync fails
WriteOutcomes == {"ok", "create", "partial", "sync"}

\* storage.calculatePercentageSize, given what the probe returned
stoCalculatePercentageSize(percent, probe) ==
    IF probe.err THEN [err |-> TRUE, size |-> 0]
    ELSE LET targetSize == MulDivTrunc(MulDivTrunc(probe.free, percent, 100), 90, 100)
         IN  IF targetSize <= 0 THEN [err |-> TRUE, size |-> 0]
             ELSE [err |-> FALSE, size |-> targetSize]

\* writeFile(filePath, size): the directory afterwards and whether it failed
writeFile(d, f, size, outcome) ==
    CASE outcome = "ok" -> [err |-> FALSE, disk |-> PutFile(d, f, size)]
      [] outcome = "create" -> [err |-> TRUE, disk |-> d]
      [] outcome = "partial" -> [err |-> TRUE, disk |-> PutFile(d, f, size \div 2)]
      [] outcome = "sync" -> [err |-> TRUE, disk |-> PutFile(d, f, size)]

\* appendToFile(filePath, size): the directory afterwards
appendToFile(d, f, size, ok) ==
    IF ok /\ f \in DOMAIN d THEN PutFile(d, f, d[f] + size) ELSE d

\* GenerateLoad's branch: a negative size is a percentage
stoIsDynamic(size) == size < 0

\* stoGrow counting the bytes of a write that failed
stoGrowCountsFailed(st, newTargetSize, outcome) ==
    LET additionalSize == newTargetSize - st.total
        w == writeFile(st.disk, st.counter, additionalSize, outcome)
    IN  IF w.err
        THEN [st EXCEPT !.disk = w.disk, !.op = "growError",
                        !.total = st.total + additionalSize]
        ELSE [st EXCEPT !.disk = w.disk, !.op = "grow",
                        !.files = Append(st.files, st.counter),
                        !.total = st.total + additionalSize,
                        !.counter = st.counter + 1]

\* stoGrow without "currentFiles = append(currentFiles, filePath)"
stoGrowUnlisted(st, newTargetSize, outcome) ==
    LET additionalSize == newTargetSize - st.total
        w == writeFile(st.disk, st.counter, additionalSize, outcome)
    IN  IF w.err
        THEN [st EXCEPT !.disk = w.disk, !.op = "growError"]
        ELSE [st EXCEPT !.disk = w.disk, !.op = "grow",
                        !.total = st.total + additionalSize,
                        !.counter = st.counter + 1]

\* the growth branch of a tick (storage.go 154-168); st is the controller's
\* files, total, counter and directory
stoGrow(st, newTargetSize, outcome) ==
    LET additionalSize == newTargetSize - st.total
        w == writeFile(st.disk, st.counter, additionalSize, outcome)
    IN  IF w.err
        THEN [st EXCEPT !.disk = w.disk, !.op = "growError"]
        ELSE [st EXCEPT !.disk = w.disk, !.op = "grow",
                        !.files = Append(st.files, st.counter),
                        !.total = st.total + additionalSize,
                        !.counter = st.counter + 1]

\* stoShrinkLoop with the loop running while "i >= 0"
RECURSIVE stoShrinkLoopToZero(_, _, _, _, _)
stoShrinkLoopToZero(i, st, deletedSize, excessSize, fails) ==
    IF ~(i >= 0 /\ deletedSize < excessSize) THEN st
    ELSE LET filePath == st.files[i + 1] IN
         IF i \in fails \/ filePath \notin DOMAIN st.disk
         THEN stoShrinkLoopToZero(i - 1, [st EXCEPT !.rmErr = TRUE], deletedSize,
                                  excessSize, fails)
         ELSE LET fileSize == st.disk[filePath] IN
              stoShrinkLoopToZero(i - 1,
                  [st EXCEPT !.disk = RemoveFile(st.disk, filePath),
                             !.total = st.total - fileSize,
                             !.files = SubSeq(st.files, 1, i)],
                  deletedSize + fileSize, excessSize, fails)

\* the deletion loop (storage.go 175-185) from Go index i down; fails holds
\* the Go indices whose os.Stat or os.Remove fails
RECURSIVE stoShrinkLoop(_, _, _, _, _)
stoShrinkLoop(i, st, deletedSize, excessSize, fails) ==
    IF ~(i > 0 /\ deletedSize < excessSize) THEN st
    ELSE LET filePath == st.files[i + 1] IN
         IF i \in fails \/ filePath \notin DOMAIN st.disk
         THEN stoShrinkLoop(i - 1, [st EXCEPT !.rmErr = TRUE], deletedSize, excessSize,
                            fails)
         ELSE LET fileSize == st.disk[filePath] IN
              stoShrinkLoop(i - 1,
                  [st EXCEPT !.disk = RemoveFile(st.disk, filePath),
                             !.total = st.total - fileSize,
                             !.files = SubSeq(st.files, 1, i)],
                  deletedSize + fileSize, excessSize, fails)

\* the shrink branch of a tick (storage.go 169-191)
stoShrink(st, newTargetSize, fails) ==
    [stoShrinkLoop(Len(st.files) - 1, st, 0, st.total - newTargetSize, fails)
        EXCEPT !.op = "shrink"]

\* stoAdjust with the growth test "newTargetSize != totalWritten"
stoAdjustUnequal(st, newTargetSize, outcome, fails) ==
    IF newTargetSize # st.total THEN stoGrow(st, newTargetSize, outcome)
    ELSE [st EXCEPT !.op = "hold"]

\* the adjustment of a tick: grow, or shrink, or neither
stoAdjust(st, newTargetSize, outcome, fails) ==
    IF newTargetSize > st.total THEN stoGrow(st, newTargetSize, outcome)
    ELSE IF newTargetSize < st.total /\ Len(st.files) > 1
         THEN stoShrink(st, newTargetSize, fails)
         ELSE [st EXCEPT !.op = "hold"]

\* the I/O step of a tick (storage.go 194-209): read one file, append 1024 bytes
stoLiveness(st, now, appendOk) ==
    IF Len(st.files) > 0
    THEN [st EXCEPT !.disk = appendToFile(st.disk, st.files[(now % Len(st.files)) + 1],
                                          1024, appendOk),
                    !.live = TRUE]
    ELSE st

\* stoTickBody with the I/O step skipped when the tick neither grew nor shrank
stoTickBodyIdleHold(st, percent, probe, outcome, fails, now, appendOk) ==
    LET c == stoCalculatePercentageSize(percent, probe) IN
    IF c.err THEN [st EXCEPT !.op = "probeError", !.live = FALSE, !.rmErr = FALSE]
    ELSE LET a == stoAdjust([st EXCEPT !.target = c.size, !.live = FALSE,
                                       !.rmErr = FALSE],
                            c.size, outcome, fails)
         IN  IF a.op \in {"growError", "hold"} THEN a ELSE stoLiveness(a, now, appendOk)

\* one pass of the ticker case (storage.go 145-210)
stoTickBody(st, percent, probe, outcome, fails, now, appendOk) ==
    LET c == stoCalculatePercentageSize(percent, probe) IN
    IF c.err THEN [st EXCEPT !.op = "probeError", !.live = FALSE, !.rmErr = FALSE]
    ELSE LET a == stoAdjust([st EXCEPT !.target = c.size, !.live = FALSE,
                                       !.rmErr = FALSE],
                            c.size, outcome, fails)
         IN  IF a.op = "growError" THEN a ELSE stoLiveness(a, now, appendOk)

\* stoCleanup removing the held files one by one instead of the directory
stoCleanupHeldOnly ==
    /\ tempDir' = tempDir
    /\ disk' = [f \in {g \in DOMAIN disk : \A i \in 1..Len(currentFiles) : currentFiles[i] # g}
                  |-> disk[f]]

\* GenerateLoad's deferred os.RemoveAll(tempDir); its error is discarded
stoCleanup ==
    /\ tempDir' = FALSE
    /\ disk' = EmptyDisk

stoState ==
    [files |-> currentFiles, total |-> totalWritten, counter |-> fileCounter,
     disk |-> disk, target |-> stoTarget, op |-> stoOp, live |-> stoLive,
     rmErr |-> stoRemoveErr]

stoSetState(st) ==
    /\ currentFiles' = st.files
    /\ totalWritten' = st.total
    /\ fileCounter' = st.counter
    /\ disk' = st.disk
    /\ stoTarget' = st.target
    /\ stoOp' = st.op
    /\ stoLive' = st.live
    /\ stoRemoveErr' = st.rmErr

\* performStorageOperations' constants
chunkSize == 1048576

numFiles == 10

\* the size of each file of the static generator (storage.go 56-59)
stoFileSize(totalSize) ==
    IF totalSize \div numFiles < chunkSize THEN chunkSize ELSE totalSize \div numFiles

\* the values time.Now().Unix() is drawn from, enough to reach every index
Clock == 0..MaxTicks

\* GenerateLoad up to its branch (storage.go 19-46): os.MkdirTemp, then the
\* generator the size selects
StorageStart ==
    /\ Running
    /\ stoPc = "start"
    /\ \E mkdirOk \in BOOLEAN :
        IF mkdirOk
        THEN /\ tempDir' = TRUE
             /\ stoMode' = IF stoIsDynamic(stoSize) THEN "dynamic" ELSE "static"
             /\ stoPc' = IF stoIsDynamic(stoSize) THEN "dynInit" ELSE "staticWrite"
        ELSE /\ stoPc' = "done"
             /\ UNCHANGED <<tempDir, stoMode>>
    /\ UNCHANGED <<stoSize, disk, currentFiles, totalWritten, fileCounter, stoTarget,
                   stoOp, stoLive, stoRemoveErr, stoTick, stoTicks, stoIdx, operationCount>>
    /\ UNCHANGED <<parseVars, external, mainVars, ctxDone, memVars, cpuVars>>

\* the initial calculation and file (storage.go 115-138); an error returns
\* through GenerateLoad and its deferred cleanup
StorageDynInit ==
    /\ Running
    /\ stoPc = "dynInit"
    /\ \E probe \in DiskProbes, outcome \in WriteOutcomes :
        LET c == stoCalculatePercentageSize(-stoSize, probe)
            w == writeFile(disk, fileCounter, c.size, outcome)
        IN  IF c.err \/ w.err
            THEN /\ stoPc' = "done"
                 /\ stoOp' = "initError"
                 /\ stoCleanup
                 /\ UNCHANGED <<currentFiles, totalWritten, fileCounter, stoTarget>>
            ELSE /\ stoPc' = "dynLoop"
                 /\ stoOp' = "init"
                 /\ disk' = w.disk
                 /\ currentFiles' = Append(currentFiles, fileCounter)
                 /\ totalWritten' = c.size
                 /\ fileCounter' = fileCounter + 1
                 /\ stoTarget' = c.size
                 /\ UNCHANGED tempDir
    /\ UNCHANGED <<stoMode, stoSize, stoLive, stoRemoveErr, stoTick, stoTicks, stoIdx, operationCount>>
    /\ UNCHANGED <<parseVars, external, mainVars, ctxDone, memVars, cpuVars>>

\* the ticker case of the dynamic loop (storage.go 145-210)
StorageDynTick ==
    /\ Running
    /\ stoPc = "dynLoop"
    /\ stoTick
    /\ \E probe \in DiskProbes, outcome \in WriteOutcomes,
          fails \in SUBSET (1..(Len(currentFiles) - 1)), now \in Clock,
          appendOk \in BOOLEAN :
        stoSetState(stoTickBody(stoState, -stoSize, probe, outcome, fails, now, appendOk))
    /\ stoTick' = FALSE
    /\ stoTicks' = stoTicks + 1
    /\ UNCHANGED <<stoPc, stoMode, stoSize, tempDir, stoIdx, operationCount>>
    /\ UNCHANGED <<parseVars, external, mainVars, ctxDone, memVars, cpuVars>>

\* the ctx.Done case of the dynamic loop (storage.go 142-143), GenerateLoad's
\* return and its deferred cleanup
StorageDynStop ==
    /\ Running
    /\ stoPc = "dynLoop"
    /\ ctxDone
    /\ stoPc' = "done"
    /\ stoCleanup
    /\ UNCHANGED <<stoMode, stoSize, currentFiles, totalWritten, fileCounter, stoTarget,
                   stoOp, stoLive, stoRemoveErr, stoTick, stoTicks, stoIdx, operationCount>>
    /\ UNCHANGED <<parseVars, external, mainVars, ctxDone, memVars, cpuVars>>

\* one iteration of the write phase (storage.go 69-80)
StorageStaticWrite ==
    /\ Running
    /\ stoPc = "staticWrite"
    /\ IF ctxDone
       THEN /\ stoPc' = "done"
            /\ stoCleanup
            /\ UNCHANGED stoIdx
       ELSE \E outcome \in WriteOutcomes :
            LET w == writeFile(disk, stoIdx, stoFileSize(stoSize), outcome) IN
            IF w.err
            THEN /\ stoPc' = "done"
                 /\ stoCleanup
                 /\ UNCHANGED stoIdx
            ELSE /\ disk' = w.disk
                 /\ stoIdx' = stoIdx + 1
                 /\ stoPc' = IF stoIdx + 1 = numFiles THEN "staticLoop" ELSE "staticWrite"
                 /\ UNCHANGED tempDir
    /\ UNCHANGED <<stoMode, stoSize, currentFiles, totalWritten, fileCounter, stoTarget,
                   stoOp, stoLive, stoRemoveErr, stoTick, stoTicks, operationCount>>
    /\ UNCHANGED <<parseVars, external, mainVars, ctxDone, memVars, cpuVars>>

\* the ticker case of the static loop (storage.go 92-108)
StorageStaticTick ==
    /\ Running
    /\ stoPc = "staticLoop"
    /\ stoTick
    /\ \E appendOk \in BOOLEAN :
        disk' = appendToFile(disk, operationCount % numFiles, chunkSize \div 4, appendOk)
    /\ operationCount' = operationCount + 1
    /\ stoTick' = FALSE
    /\ stoTicks' = stoTicks + 1
    /\ UNCHANGED <<stoPc, stoMode, stoSize, tempDir, currentFiles, totalWritten,
                   fileCounter, stoTarget, stoOp, stoLive, stoRemoveErr, stoIdx>>
    /\ UNCHANGED <<parseVars, external, mainVars, ctxDone, memVars, cpuVars>>

\* the ctx.Done case of the static loop (storage.go 90-91) and the cleanup
StorageStaticStop ==
    /\ Running
    /\ stoPc = "staticLoop"
    /\ ctxDone
    /\ stoPc' = "done"
    /\ stoCleanup
    /\ UNCHANGED <<stoMode, stoSize, currentFiles, totalWritten, fileCounter, stoTarget,
                   stoOp, stoLive, stoRemoveErr, stoTick, stoTicks, stoIdx, operationCount>>
    /\ UNCHANGED <<parseVars, external, mainVars, ctxDone, memVars, cpuVars>>

\* the storage generator's ticker delivers a tick (time.NewTicker: a channel
\* of capacity one, a tick is dropped when one is waiting)
StorageTickerFires ==
    /\ Running
    /\ stoPc \in {"dynInit", "dynLoop", "staticLoop"}
    /\ ~stoTick
    /\ stoTicks < tickLimit
    /\ stoTick' = TRUE
    /\ UNCHANGED <<stoPc, stoMode, stoSize, disk, tempDir, currentFiles, totalWritten,
                   fileCounter, stoTarget, stoOp, stoLive, stoRemoveErr, stoTicks, stoIdx,
                   operationCount>>
    /\ UNCHANGED <<parseVars, external, mainVars, ctxDone, memVars, cpuVars>>

StorageNext ==
    \/ StorageStart
    \/ StorageDynInit
    \/ StorageDynTick
    \/ StorageDynStop
    \/ StorageStaticWrite
    \/ StorageStaticTick
    \/ StorageStaticStop
    \/ StorageTickerFires

(***************************************************************************)
(* pkg/memory                                                              *)
(***************************************************************************)
\* what totalSystemMemory - memStats.Sys can be (the free memory the
\* calculation starts from; the runtime's Sys is the environment's)
MemFreeValues == {0, 1, 500 * MB, 1000 * MB, 1500 * MB}

\* memory.calculatePercentageSize, given the free memory
memCalculatePercentageSize(percent, freeMemory) ==
    IF freeMemory <= 0 THEN [err |-> TRUE, size |-> 0]
    ELSE LET targetSize == MulDivTrunc(MulDivTrunc(freeMemory, percent, 100), 95, 100)
         IN  IF targetSize <= 0 THEN [err |-> TRUE, size |-> 0]
             ELSE [err |-> FALSE, size |-> targetSize]

\* GenerateLoad's branch: a negative size is a percentage
memIsDynamic(size) == size < 0

\* memGrow with "totalAllocated = additionalSize" for "+="
memGrowAssign(st, newTargetSize) ==
    LET additionalSize == newTargetSize - st.total IN
    [st EXCEPT !.buffers = Append(st.buffers, additionalSize),
               !.total = additionalSize,
               !.op = "grow"]

\* the growth branch of a tick (memory.go 122-132); st is the controller's
\* buffers and total
memGrow(st, newTargetSize) ==
    LET additionalSize == newTargetSize - st.total IN
    [st EXCEPT !.buffers = Append(st.buffers, additionalSize),
               !.total = st.total + additionalSize,
               !.op = "grow"]

\* memShrinkLoop with the loop running while "i >= 0"
RECURSIVE memShrinkLoopToZero(_, _, _, _)
memShrinkLoopToZero(i, st, releasedSize, excessSize) ==
    IF ~(i >= 0 /\ releasedSize < excessSize) THEN st
    ELSE LET bufferSize == st.buffers[i + 1] IN
         memShrinkLoopToZero(i - 1,
             [st EXCEPT !.buffers = SubSeq(st.buffers, 1, i),
                        !.total = st.total - bufferSize],
             releasedSize + bufferSize, excessSize)

\* the release loop (memory.go 139-145) from Go index i down
RECURSIVE memShrinkLoop(_, _, _, _)
memShrinkLoop(i, st, releasedSize, excessSize) ==
    IF ~(i > 0 /\ releasedSize < excessSize) THEN st
    ELSE LET bufferSize == st.buffers[i + 1] IN
         memShrinkLoop(i - 1,
             [st EXCEPT !.buffers = SubSeq(st.buffers, 1, i),
                        !.total = st.total - bufferSize],
             releasedSize + bufferSize, excessSize)

\* the shrink branch of a tick (memory.go 133-152)
memShrink(st, newTargetSize) ==
    [memShrinkLoop(Len(st.buffers) - 1, st, 0, st.total - newTargetSize)
        EXCEPT !.op = "shrink"]

\* the adjustment of a tick: grow, or shrink, or neither
memAdjust(st, newTargetSize) ==
    IF newTargetSize > st.total THEN memGrow(st, newTargetSize)
    ELSE IF newTargetSize < st.total /\ Len(st.buffers) > 1
         THEN memShrink(st, newTargetSize)
         ELSE [st EXCEPT !.op = "hold"]

\* one pass of the ticker case (memory.go 113-162); the keep-active loop
\* writes one byte into each buffer and changes no length
memTickBody(st, percent, freeMemory) ==
    LET c == memCalculatePercentageSize(percent, freeMemory) IN
    IF c.err THEN [st EXCEPT !.op = "probeError", !.live = FALSE]
    ELSE [memAdjust([st EXCEPT !.target = c.size], c.size) EXCEPT !.live = TRUE]

memState ==
    [buffers |-> buffers, total |-> totalAllocated, target |-> memTarget,
     op |-> memOp, live |-> memLive]

memSetState(st) ==
    /\ buffers' = st.buffers
    /\ totalAllocated' = st.total
    /\ memTarget' = st.target
    /\ memOp' = st.op
    /\ memLive' = st.live

\* the release at ctx.Done (memory.go 105-110): every buffer is set to nil
\* and the list dropped
memRelease == buffers' = <<>>

\* GenerateLoad's branch (memory.go 17-28)
MemoryStart ==
    /\ Running
    /\ memPc = "start"
    /\ memMode' = IF memIsDynamic(memSize) THEN "dynamic" ELSE "static"
    /\ memPc' = IF memIsDynamic(memSize) THEN "dynInit" ELSE "staticInit"
    /\ UNCHANGED <<memSize, buffers, totalAllocated, buffer, gcPercent, oldGCPercent,
                   memTarget, memOp, memLive, memTick, memTicks>>
    /\ UNCHANGED <<parseVars, external, mainVars, ctxDone, stoVars, cpuVars>>

\* MemoryDynInit entering the loop when the initial calculation fails
MemoryDynInitLoopsOnError ==
    /\ Running
    /\ memPc = "dynInit"
    /\ oldGCPercent' = gcPercent
    /\ \E freeMemory \in MemFreeValues :
        LET c == memCalculatePercentageSize(-memSize, freeMemory) IN
        IF c.err
        THEN /\ memPc' = "dynLoop"
             /\ memOp' = "initError"
             /\ gcPercent' = -1
             /\ UNCHANGED <<buffers, totalAllocated, memTarget>>
        ELSE /\ memPc' = "dynLoop"
             /\ memOp' = "init"
             /\ gcPercent' = -1
             /\ buffers' = Append(buffers, c.size)
             /\ totalAllocated' = c.size
             /\ memTarget' = c.size
    /\ UNCHANGED <<memMode, memSize, buffer, memLive, memTick, memTicks>>
    /\ UNCHANGED <<parseVars, external, mainVars, ctxDone, stoVars, cpuVars>>

\* generateDynamicLoad up to its loop (memory.go 74-99): the collector is
\* switched off, and restored when the initial calculation fails
MemoryDynInit ==
    /\ Running
    /\ memPc = "dynInit"
    /\ oldGCPercent' = gcPercent
    /\ \E freeMemory \in MemFreeValues :
        LET c == memCalculatePercentageSize(-memSize, freeMemory) IN
        IF c.err
        THEN /\ memPc' = "done"
             /\ memOp' = "initError"
             /\ gcPercent' = gcPercent
             /\ UNCHANGED <<buffers, totalAllocated, memTarget>>
        ELSE /\ memPc' = "dynLoop"
             /\ memOp' = "init"
             /\ gcPercent' = -1
             /\ buffers' = Append(buffers, c.size)
             /\ totalAllocated' = c.size
             /\ memTarget' = c.size
    /\ UNCHANGED <<memMode, memSize, buffer, memLive, memTick, memTicks>>
    /\ UNCHANGED <<parseVars, external, mainVars, ctxDone, stoVars, cpuVars>>

\* the ticker case of the dynamic loop (memory.go 113-162)
MemoryDynTick ==
    /\ Running
    /\ memPc = "dynLoop"
    /\ memTick
    /\ \E freeMemory \in MemFreeValues :
        memSetState(memTickBody(memState, -memSize, freeMemory))
    /\ memTick' = FALSE
    /\ memTicks' = memTicks + 1
    /\ UNCHANGED <<memPc, memMode, memSize, buffer, gcPercent, oldGCPercent>>
    /\ UNCHANGED <<parseVars, external, mainVars, ctxDone, stoVars, cpuVars>>

\* the ctx.Done case of the dynamic loop (memory.go 103-111) and the
\* deferred SetGCPercent
MemoryDynStop ==
    /\ Running
    /\ memPc = "dynLoop"
    /\ ctxDone
    /\ memPc' = "done"
    /\ memRelease
    /\ gcPercent' = oldGCPercent
    /\ UNCHANGED <<memMode, memSize, totalAllocated, buffer, oldGCPercent, memTarget,
                   memOp, memLive, memTick, memTicks>>
    /\ UNCHANGED <<parseVars, external, mainVars, ctxDone, stoVars, cpuVars>>

\* generateStaticLoad up to its loop (memory.go 31-53)
MemoryStaticInit ==
    /\ Running
    /\ memPc = "staticInit"
    /\ oldGCPercent' = gcPercent
    /\ gcPercent' = -1
    /\ buffer' = memSize
    /\ memPc' = "staticLoop"
    /\ UNCHANGED <<memMode, memSize, buffers, totalAllocated, memTarget, memOp, memLive,
                   memTick, memTicks>>
    /\ UNCHANGED <<parseVars, external, mainVars, ctxDone, stoVars, cpuVars>>

\* the ticker case of the static loop (memory.go 63-68): one byte is written
MemoryStaticTick ==
    /\ Running
    /\ memPc = "staticLoop"
    /\ memTick
    /\ memTick' = FALSE
    /\ memTicks' = memTicks + 1
    /\ UNCHANGED <<memPc, memMode, memSize, buffers, totalAllocated, buffer, gcPercent,
                   oldGCPercent, memTarget, memOp, memLive>>
    /\ UNCHANGED <<parseVars, external, mainVars, ctxDone, stoVars, cpuVars>>

\* the ctx.Done case of the static loop (memory.go 57-62) and the deferred
\* SetGCPercent
MemoryStaticStop ==
    /\ Running
    /\ memPc = "staticLoop"
    /\ ctxDone
    /\ buffer' = -1
    /\ memPc' = "done"
    /\ gcPercent' = oldGCPercent
    /\ UNCHANGED <<memMode, memSize, buffers, totalAllocated, oldGCPercent, memTarget,
                   memOp, memLive, memTick, memTicks>>
    /\ UNCHANGED <<parseVars, external, mainVars, ctxDone, stoVars, cpuVars>>

\* the memory generator's ticker delivers a tick
MemoryTickerFires ==
    /\ Running
    /\ memPc \in {"dynLoop", "staticLoop"}
    /\ ~memTick
    /\ memTicks < tickLimit
    /\ memTick' = TRUE
    /\ UNCHANGED <<memPc, memMode, memSize, buffers, totalAllocated, buffer, gcPercent,
                   oldGCPercent, memTarget, memOp, memLive, memTicks>>
    /\ UNCHANGED <<parseVars, external, mainVars, ctxDone, stoVars, cpuVars>>

MemoryNext ==
    \/ MemoryStart
    \/ MemoryDynInit
    \/ MemoryDynTick
    \/ MemoryDynStop
    \/ MemoryStaticInit
    \/ MemoryStaticTick
    \/ MemoryStaticStop
    \/ MemoryTickerFires

(***************************************************************************)
(* The load generators on their own: one generator is called with a size   *)
(* and runs until the context, which the caller cancels at some point, is  *)
(* done.                                                                   *)
(***************************************************************************)
\* the sizes GenerateLoad is called with: percentages (negative) and bytes
LoadSizes == {-80, -50, 0, 5 * MB, 50 * MB}

StorageFresh ==
    /\ stoMode = "none"
    /\ disk = EmptyDisk /\ tempDir = FALSE
    /\ currentFiles = <<>> /\ totalWritten = 0 /\ fileCounter = 0
    /\ stoTarget = 0 /\ stoOp = "none" /\ stoLive = FALSE /\ stoRemoveErr = FALSE
    /\ stoTick = FALSE /\ stoTicks = 0 /\ stoIdx = 0 /\ operationCount = 0

StorageIdle == stoPc = "idle" /\ stoSize = 0 /\ StorageFresh

MemoryFresh ==
    /\ memMode = "none"
    /\ buffers = <<>> /\ totalAllocated = 0 /\ buffer = -1
    /\ gcPercent = 100 /\ oldGCPercent = 100
    /\ memTarget = 0 /\ memOp = "none" /\ memLive = FALSE
    /\ memTick = FALSE /\ memTicks = 0

MemoryIdle == memPc = "idle" /\ memSize = 0 /\ MemoryFresh

ParseIdle ==
    /\ input = <<>>
    /\ parsed = NotParsed

\* no orchestrator: the context exists and nobody called os.Exit
MainAbsent ==
    /\ config = NoConfig
    /\ mainPc = "none" /\ exitCode = -1
    /\ ctxCreated = TRUE /\ ctxDone = FALSE
    /\ sigChan = FALSE /\ progPc = "idle"

CpuIdle ==
    /\ cpuPc = "idle" /\ coreCount = 0 /\ workers = <<>>
    /\ gomaxprocs = NumCPU /\ oldMaxProcs = NumCPU

InitLoad ==
    /\ ParseIdle
    /\ MainAbsent
    /\ external = 0
    /\ tickLimit = MaxTicks
    /\ CpuIdle
    /\ \/ /\ MemoryIdle
          /\ stoPc = "start" /\ stoSize \in LoadSizes /\ StorageFresh
       \/ /\ StorageIdle
          /\ memPc = "start" /\ memSize \in LoadSizes /\ MemoryFresh

\* the context becomes done: the deadline passes or main calls cancel()
CtxDone ==
    /\ Running
    /\ ctxCreated
    /\ ~ctxDone
    /\ ctxDone' = TRUE
    /\ UNCHANGED <<parseVars, external, mainVars, stoVars, memVars, cpuVars>>

NextLoad == StorageNext \/ MemoryNext \/ CtxDone

SpecLoad == InitLoad /\ [][NextLoad]_vars

(***************************************************************************)
(* The parser on its own: parseSize is called once on a string.            *)
(***************************************************************************)
Strings == UNION {[1..n -> Alphabet] : n \in 0..MaxLen}

InitParse ==
    /\ input \in Strings
    /\ external = 0
    /\ parsed = NotParsed
    /\ MainAbsent
    /\ tickLimit = MaxTicks
    /\ CpuIdle
    /\ StorageIdle
    /\ MemoryIdle

\* one call of parseSize
ParseCall ==
    /\ parsed = NotParsed
    /\ parsed' = parseSize(input)
    /\ UNCHANGED <<input, external, mainVars, ctxDone, stoVars, memVars, cpuVars>>

NextParse == ParseCall

SpecParse == InitParse /\ [][NextParse]_vars

(***************************************************************************)
(* pkg/cpu                                                                 *)
(***************************************************************************)
\* GenerateLoad up to wg.Wait (cpu.go 16-39): the worker count, GOMAXPROCS,
\* and one goroutine per worker
CpuStart ==
    /\ Running
    /\ cpuPc = "start"
    /\ LET n == IF coreCount = 0 THEN NumCPU ELSE coreCount IN
        /\ coreCount' = n
        /\ oldMaxProcs' = gomaxprocs
        /\ gomaxprocs' = n
        /\ workers' = [i \in 1..n |-> "batch"]
    /\ cpuPc' = "wait"
    /\ UNCHANGED <<parseVars, external, mainVars, ctxDone, stoVars, memVars>>

\* a worker finishes a batch of checkInterval iterations (cpu.go 53-60)
WorkerBatch(i) ==
    /\ Running
    /\ cpuPc = "wait"
    /\ i \in DOMAIN workers
    /\ workers[i] = "batch"
    /\ workers' = [workers EXCEPT ![i] = "check"]
    /\ UNCHANGED <<cpuPc, coreCount, gomaxprocs, oldMaxProcs>>
    /\ UNCHANGED <<parseVars, external, mainVars, ctxDone, stoVars, memVars>>

\* WorkerCheck with a select that never sees the context done
WorkerCheckBlind(i) ==
    /\ Running
    /\ cpuPc = "wait"
    /\ i \in DOMAIN workers
    /\ workers[i] = "check"
    /\ workers' = [workers EXCEPT ![i] = "batch"]
    /\ UNCHANGED <<cpuPc, coreCount, gomaxprocs, oldMaxProcs>>
    /\ UNCHANGED <<parseVars, external, mainVars, ctxDone, stoVars, memVars>>

\* a worker's select after a batch (cpu.go 63-73): return when the context
\* is done, the next batch otherwise
WorkerCheck(i) ==
    /\ Running
    /\ cpuPc = "wait"
    /\ i \in DOMAIN workers
    /\ workers[i] = "check"
    /\ workers' = [workers EXCEPT ![i] = IF ctxDone THEN "done" ELSE "batch"]
    /\ UNCHANGED <<cpuPc, coreCount, gomaxprocs, oldMaxProcs>>
    /\ UNCHANGED <<parseVars, external, mainVars, ctxDone, stoVars, memVars>>

\* CpuReturn with a wait that ends when the first worker returns
CpuReturnAny ==
    /\ Running
    /\ cpuPc = "wait"
    /\ \E i \in DOMAIN workers : workers[i] = "done"
    /\ gomaxprocs' = oldMaxProcs
    /\ cpuPc' = "done"
    /\ UNCHANGED <<coreCount, workers, oldMaxProcs>>
    /\ UNCHANGED <<parseVars, external, mainVars, ctxDone, stoVars, memVars>>

\* wg.Wait returns, GOMAXPROCS is restored and GenerateLoad returns
\* (cpu.go 39-41)
CpuReturn ==
    /\ Running
    /\ cpuPc = "wait"
    /\ \A i \in DOMAIN workers : workers[i] = "done"
    /\ gomaxprocs' = oldMaxProcs
    /\ cpuPc' = "done"
    /\ UNCHANGED <<coreCount, workers, oldMaxProcs>>
    /\ UNCHANGED <<parseVars, external, mainVars, ctxDone, stoVars, memVars>>

CpuNext ==
    \/ CpuStart
    \/ \E i \in 1..(NumCPU + 1) : WorkerBatch(i)
    \/ \E i \in 1..(NumCPU + 1) : WorkerCheck(i)
    \/ CpuReturn

(***************************************************************************)
(* main.go: the orchestrator                                               *)
(***************************************************************************)
\* the --memory and --storage strings of the runs checked
SizeArgs == {<<>>, <<"5", "0", "%">>, <<"0", "%">>, <<"5", "M">>, <<"X">>}

\* --timeout: absent, not a duration, a duration
TimeoutArgs == {"", "bad", "3s"}

\* --cpu: unset, all cores, one core
CpuArgs == {-1, 0, 1}

\* the load types a run asks for
Requested(c) ==
    (IF c.cpu >= 0 THEN {"cpu"} ELSE {})
        \cup (IF c.memory # <<>> THEN {"memory"} ELSE {})
        \cup (IF c.storage # <<>> THEN {"storage"} ELSE {})

\* parseSize on the strings of the runs checked
parsedArgs == [str \in SizeArgs |-> parseSize(str)]

\* load types one run combines
MaxLoads == 2

\* the runs checked: every combination of the flags above that asks for at
\* most MaxLoads load types
Configs ==
    {c \in [timeout : TimeoutArgs, cpu : CpuArgs, memory : SizeArgs, storage : SizeArgs] :
        Cardinality(Requested(c)) <= MaxLoads}

\* ticks each generator handles when the whole program runs
OrchTicks == 1

\* wgZero counting the CPU task only
wgZeroCpuOnly == cpuPc \in {"idle", "done"}

\* the WaitGroup's counter is zero: every started task has returned
wgZero ==
    /\ cpuPc \in {"idle", "done"}
    /\ memPc \in {"idle", "done"}
    /\ stoPc \in {"idle", "done"}

\* os.Exit(1)
mainExit ==
    /\ exitCode' = 1
    /\ mainPc' = "exited"

\* MainValidate without the test that a load type is asked for
MainValidateAnyLoad ==
    /\ Running
    /\ mainPc = "start"
    /\ IF config.timeout = "" \/ config.timeout = "bad"
       THEN mainExit /\ UNCHANGED ctxCreated
       ELSE /\ ctxCreated' = TRUE
            /\ mainPc' = "startCpu"
            /\ UNCHANGED exitCode
    /\ UNCHANGED <<config, sigChan, progPc, tickLimit>>
    /\ UNCHANGED <<parseVars, external, ctxDone, stoVars, memVars, cpuVars>>

\* main up to the first task (main.go 28-82): the flags are checked, the
\* context is created and the signals are routed to sigChan
MainValidate ==
    /\ Running
    /\ mainPc = "start"
    /\ IF \/ config.timeout = ""
          \/ config.timeout = "bad"
          \/ (config.cpu < 0 /\ config.memory = <<>> /\ config.storage = <<>>)
       THEN mainExit /\ UNCHANGED ctxCreated
       ELSE /\ ctxCreated' = TRUE
            /\ mainPc' = "startCpu"
            /\ UNCHANGED exitCode
    /\ UNCHANGED <<config, sigChan, progPc, tickLimit>>
    /\ UNCHANGED <<parseVars, external, ctxDone, stoVars, memVars, cpuVars>>

\* main.go 84-91: the CPU task is started
MainStartCpu ==
    /\ Running
    /\ mainPc = "startCpu"
    /\ IF config.cpu >= 0
       THEN /\ cpuPc' = "start"
            /\ coreCount' = config.cpu
       ELSE UNCHANGED <<cpuPc, coreCount>>
    /\ mainPc' = "startMemory"
    /\ UNCHANGED <<workers, gomaxprocs, oldMaxProcs>>
    /\ UNCHANGED <<config, exitCode, ctxCreated, sigChan, progPc, tickLimit>>
    /\ UNCHANGED <<parseVars, external, ctxDone, stoVars, memVars>>

\* main.go 93-106: the memory size is parsed and the memory task started
MainStartMemory ==
    /\ Running
    /\ mainPc = "startMemory"
    /\ IF config.memory # <<>>
       THEN LET r == parsedArgs[config.memory] IN
            IF ~r.ok
            THEN mainExit /\ UNCHANGED <<memPc, memSize>>
            ELSE /\ memPc' = "start"
                 /\ memSize' = ToInt(r.val)
                 /\ mainPc' = "startStorage"
                 /\ UNCHANGED exitCode
       ELSE /\ mainPc' = "startStorage"
            /\ UNCHANGED <<exitCode, memPc, memSize>>
    /\ UNCHANGED <<memMode, buffers, totalAllocated, buffer, gcPercent, oldGCPercent,
                   memTarget, memOp, memLive, memTick, memTicks>>
    /\ UNCHANGED <<config, ctxCreated, sigChan, progPc, tickLimit>>
    /\ UNCHANGED <<parseVars, external, ctxDone, stoVars, cpuVars>>

\* main.go 108-124: the storage size is parsed, the storage task and the
\* progress reporter started
MainStartStorage ==
    /\ Running
    /\ mainPc = "startStorage"
    /\ IF config.storage # <<>>
       THEN LET r == parsedArgs[config.storage] IN
            IF ~r.ok
            THEN mainExit /\ UNCHANGED <<stoPc, stoSize, progPc>>
            ELSE /\ stoPc' = "start"
                 /\ stoSize' = ToInt(r.val)
                 /\ mainPc' = "select"
                 /\ progPc' = "run"
                 /\ UNCHANGED exitCode
       ELSE /\ mainPc' = "select"
            /\ progPc' = "run"
            /\ UNCHANGED <<exitCode, stoPc, stoSize>>
    /\ UNCHANGED <<stoMode, disk, tempDir, currentFiles, totalWritten, fileCounter,
                   stoTarget, stoOp, stoLive, stoRemoveErr, stoTick, stoTicks, stoIdx, operationCount>>
    /\ UNCHANGED <<config, ctxCreated, sigChan, tickLimit>>
    /\ UNCHANGED <<parseVars, external, ctxDone, memVars, cpuVars>>

\* main.go 126-131: a signal is received and the context cancelled, or the
\* context is done
MainSelect ==
    /\ Running
    /\ mainPc = "select"
    /\ \/ /\ sigChan
          /\ sigChan' = FALSE
          /\ ctxDone' = TRUE
       \/ /\ ctxDone
          /\ UNCHANGED <<sigChan, ctxDone>>
    /\ mainPc' = "wait"
    /\ UNCHANGED <<config, exitCode, ctxCreated, progPc, tickLimit>>
    /\ UNCHANGED <<parseVars, external, stoVars, memVars, cpuVars>>

\* main.go 133-135: wg.Wait returns and main returns
MainWait ==
    /\ Running
    /\ mainPc = "wait"
    /\ wgZero
    /\ mainPc' = "done"
    /\ exitCode' = 0
    /\ ctxDone' = TRUE
    /\ UNCHANGED <<config, ctxCreated, sigChan, progPc, tickLimit>>
    /\ UNCHANGED <<parseVars, external, stoVars, memVars, cpuVars>>

\* SIGINT or SIGTERM arrives once signal.Notify routes it to sigChan (a
\* channel of capacity one)
Signal ==
    /\ Running
    /\ ctxCreated
    /\ mainPc # "none"
    /\ ~sigChan
    /\ sigChan' = TRUE
    /\ UNCHANGED <<config, mainPc, exitCode, ctxCreated, progPc, tickLimit>>
    /\ UNCHANGED <<parseVars, external, ctxDone, stoVars, memVars, cpuVars>>

\* showProgress returns (main.go 195-203): the context is done
ProgressReturn ==
    /\ Running
    /\ progPc = "run"
    /\ ctxDone
    /\ progPc' = "done"
    /\ UNCHANGED <<config, mainPc, exitCode, ctxCreated, sigChan, tickLimit>>
    /\ UNCHANGED <<parseVars, external, ctxDone, stoVars, memVars, cpuVars>>

MainNext ==
    \/ MainValidate
    \/ MainStartCpu
    \/ MainStartMemory
    \/ MainStartStorage
    \/ MainSelect
    \/ MainWait
    \/ Signal
    \/ ProgressReturn

Init ==
    /\ ParseIdle
    /\ config \in Configs
    /\ external = 0
    /\ mainPc = "start" /\ exitCode = -1
    /\ ctxCreated = FALSE /\ ctxDone = FALSE
    /\ sigChan = FALSE /\ progPc = "idle"
    /\ tickLimit = OrchTicks
    /\ StorageIdle
    /\ MemoryIdle
    /\ CpuIdle

Next == MainNext \/ CpuNext \/ MemoryNext \/ StorageNext \/ CtxDone

Spec == Init /\ [][Next]_vars

(***************************************************************************)
(* Properties                                                              *)
(***************************************************************************)
\* a step that is one pass of the dynamic memory loop's ticker case
MemTickStep == memPc = "dynLoop" /\ memTicks' = memTicks + 1

\* a step that is one pass of the dynamic storage loop's ticker case
StoTickStep == stoPc = "dynLoop" /\ stoTicks' = stoTicks + 1

\* the first segment stays, and what a shorter list lost it lost at the tail
KeepsFloor(old, new) ==
    /\ Len(new) >= 1
    /\ new[1] = old[1]
    /\ Len(new) < Len(old) => new = SubSeq(old, 1, Len(new))

\* C1: in the steady loop of the dynamic storage generator, totalWritten
\* equals the sum of the sizes on disk of the held files.  (The code breaks
\* it: the append of a tick's I/O step is not added to totalWritten.)
C1_TotalWrittenIsDiskSum ==
    stoPc = "dynLoop" => totalWritten = SumFiles(currentFiles, disk)

\* C2: in the steady loop of the dynamic memory generator, totalAllocated is
\* the sum of the held buffers' lengths, and a buffer is held whenever
\* totalAllocated > 0.
C2_TotalAllocatedIsSum ==
    memPc = "dynLoop" =>
        /\ totalAllocated = SumSeq(buffers)
        /\ totalAllocated > 0 => Len(buffers) >= 1

\* C2 witness: a steady state after a shrink that left two buffers or more
C2_Witness ==
    memPc = "dynLoop" /\ memOp = "shrink" /\ Len(buffers) >= 2 /\ totalAllocated > 0

\* C3 as claimed: a tick whose target is below the held total, with two
\* segments or more, leaves the held total >= target, fewer segments, and
\* segment 0.
C3_ShrinkStaysAboveTarget ==
    [][/\ (MemTickStep /\ memOp' # "probeError" /\ memTarget' < totalAllocated
              /\ Len(buffers) >= 2)
          => /\ totalAllocated' >= memTarget'
             /\ Len(buffers') < Len(buffers)
             /\ KeepsFloor(buffers, buffers')
       /\ (StoTickStep /\ stoOp' # "probeError" /\ stoTarget' < totalWritten
              /\ Len(currentFiles) >= 2)
          => /\ totalWritten' >= stoTarget'
             /\ Len(currentFiles') < Len(currentFiles)
             /\ KeepsFloor(currentFiles, currentFiles')]_vars

\* C3 amended: such a tick leaves segment 0; and, when no os.Stat or
\* os.Remove fails in it, fewer segments, and a held total <= target unless
\* only segment 0 is left.
C3_ShrinkReachesTargetOrFloor ==
    [][/\ (MemTickStep /\ memOp' # "probeError" /\ memTarget' < totalAllocated
              /\ Len(buffers) >= 2)
          => /\ KeepsFloor(buffers, buffers')
             /\ Len(buffers') < Len(buffers)
             /\ totalAllocated' <= memTarget' \/ Len(buffers') = 1
       /\ (StoTickStep /\ stoOp' # "probeError" /\ stoTarget' < totalWritten
              /\ Len(currentFiles) >= 2)
          => /\ KeepsFloor(currentFiles, currentFiles')
             /\ currentFiles'[1] \in DOMAIN disk'
             /\ ~stoRemoveErr' =>
                   /\ Len(currentFiles') < Len(currentFiles)
                   /\ totalWritten' <= stoTarget' \/ Len(currentFiles') = 1]_vars

\* C3 witness: a shrink has released a whole tail buffer, more than the
\* excess, and the held total is now below the target
C3_Witness ==
    memPc = "dynLoop" /\ memOp = "shrink" /\ totalAllocated < memTarget
        /\ Len(buffers) >= 1

\* the targets of the 80% scenario: free = 1000MB and free = 500MB
ScenarioInitial == stoCalculatePercentageSize(80, [err |-> FALSE, free |-> 1000 * MB]).size

ScenarioLater == stoCalculatePercentageSize(80, [err |-> FALSE, free |-> 500 * MB]).size

\* a tick of the scenario: 80%, segment 0 of 720MB alone, and the tick's
\* probe gives the target 360MB
ScenarioTick ==
    /\ StoTickStep
    /\ stoSize = -80
    /\ currentFiles = <<0>>
    /\ totalWritten = ScenarioInitial
    /\ stoOp' # "probeError"
    /\ stoTarget' = ScenarioLater

\* C4 as claimed: on the scenario's tick the held total decreases and
\* segment 0 stays.
C4_ScenarioShrinks ==
    [][ScenarioTick =>
          /\ totalWritten' < totalWritten
          /\ KeepsFloor(currentFiles, currentFiles')
          /\ 0 \in DOMAIN disk']_vars

\* C4 amended: on the scenario's tick nothing is released: the held total
\* stays 720MB and segment 0 stays the only held file.
C4_ScenarioHolds ==
    [][ScenarioTick =>
          /\ ScenarioInitial = 720 * MB /\ ScenarioLater = 360 * MB
          /\ totalWritten' = totalWritten
          /\ currentFiles' = <<0>>
          /\ 0 \in DOMAIN disk'
          /\ stoOp' = "hold"]_vars

\* C4 witness: the state after the scenario's tick
C4_Witness ==
    /\ stoPc = "dynLoop" /\ stoSize = -80 /\ stoTicks >= 1
    /\ stoOp = "hold" /\ stoTarget = 360 * MB
    /\ totalWritten = 720 * MB /\ currentFiles = <<0>>

\* C5: a tick whose target is above the held total and whose allocation or
\* write succeeds leaves held total = target and exactly one more segment, at
\* the tail, made with target - held bytes (a new file may already hold the
\* 1024 bytes of the same tick's append).
C5_GrowReachesTarget ==
    [][/\ (MemTickStep /\ memOp' # "probeError" /\ memTarget' > totalAllocated)
          => /\ totalAllocated' = memTarget'
             /\ buffers' = Append(buffers, memTarget' - totalAllocated)
       /\ (StoTickStep /\ stoOp' \notin {"probeError", "growError"}
              /\ stoTarget' > totalWritten)
          => /\ totalWritten' = stoTarget'
             /\ Len(currentFiles') = Len(currentFiles) + 1
             /\ SubSeq(currentFiles', 1, Len(currentFiles)) = currentFiles
             /\ LET f == currentFiles'[Len(currentFiles')] IN
                /\ f \in DOMAIN disk'
                /\ disk'[f] - (stoTarget' - totalWritten) \in {0, 1024}]_vars

\* C5 witness: a steady state after a growth of the storage generator
C5_Witness ==
    stoPc = "dynLoop" /\ stoOp = "grow" /\ Len(currentFiles) >= 2
        /\ totalWritten = stoTarget

\* C6: while a dynamic generator is in its steady loop, segment 0 stays the
\* first element of the held list (and, for storage, on disk), and a list
\* that gets shorter loses its tail only.
C6_FloorStays ==
    [][/\ memPc' = "dynLoop" => Len(buffers') >= 1
       /\ (memPc = "dynLoop" /\ memPc' = "dynLoop") => KeepsFloor(buffers, buffers')
       /\ stoPc' = "dynLoop" =>
             /\ Len(currentFiles') >= 1
             /\ currentFiles'[1] = 0
             /\ 0 \in DOMAIN disk'
       /\ (stoPc = "dynLoop" /\ stoPc' = "dynLoop")
             => KeepsFloor(currentFiles, currentFiles')]_vars

\* C6 witness: a shrink of the storage generator has left segment 0 alone
C6_Witness ==
    stoPc = "dynLoop" /\ stoOp = "shrink" /\ currentFiles = <<0>>

\* C7: once a generator has returned, nothing is held: the temporary
\* directory and its files are gone, and no buffer is referenced.
C7_NothingHeldAfterReturn ==
    /\ stoPc = "done" => (~tempDir /\ disk = EmptyDisk)
    /\ memPc = "done" => (buffers = <<>> /\ buffer = -1)

\* C7 witness: the static storage generator has returned from the middle of
\* its write phase
C7_Witness ==
    stoPc = "done" /\ stoMode = "static" /\ stoIdx \in 1..(numFiles - 1) /\ ctxDone

\* C8: a process that exited with code 1 had started no load task.  (The
\* code breaks it: the CPU task is started before --memory is parsed, the
\* memory task before --storage is parsed.)
C8_NoTaskBeforeArgumentError ==
    exitCode = 1 => (cpuPc = "idle" /\ memPc = "idle" /\ stoPc = "idle")

\* the size string is a percentage
IsPercentArg(str) == HasPercentSuffix(TrimSpace(str))

\* C9: a started memory or storage task runs the dynamic generator exactly
\* when its size string is a percentage.  (The code breaks it for "0%".)
C9_PercentageRunsDynamic ==
    /\ memMode # "none" => (memMode = "dynamic" <=> IsPercentArg(config.memory))
    /\ stoMode # "none" => (stoMode = "dynamic" <=> IsPercentArg(config.storage))

\* C10: for "<p>%", parseSize yields the percentage p exactly when p is a
\* number in [0, 100], and fails otherwise.  (The code breaks it: p is
\* truncated to an integer, and below 1 to the absolute size 0.)
C10_PercentageExact ==
    (parsed # NotParsed /\ IsPercentArg(input)) =>
        LET p == ParseFloat(TrimPercentSuffix(TrimSpace(input))) IN
        IF p.ok /\ ~(p.neg /\ p.num > 0) /\ p.num <= 100 * p.den
        THEN /\ parsed.ok
             /\ FitsInt(parsed.val)
             /\ (-ToInt(parsed.val)) * p.den = p.num
             /\ p.num > 0 => IsNegative(parsed.val)
        ELSE /\ ~parsed.ok
             /\ parsed.err \in {"invalid percentage", "percentage must be in range 0-100"}

\* C11: for a size string that is no percentage, parseSize accepts exactly
\* the strings the pattern matches and returns number * 1024^unitIndex
\* rounded to the nearest integer (halves away from zero).  (The code
\* breaks it: the conversion to int64 truncates.)
C11_AbsoluteRounded ==
    (parsed # NotParsed /\ ~IsPercentArg(input)) =>
        LET matches == FindStringSubmatch(ToUpper(TrimSpace(input))) IN
        IF matches.matched
        THEN LET value == ParseFloat(matches.number)
                 q == value.num \div value.den
                 x == MulPow1024([t |-> 0, m |-> q \div MB, b |-> q % MB,
                                  r |-> value.num % value.den],
                                 value.den, UnitIndex(matches.unit))
                 up == IF 2 * x.r >= value.den THEN 1 ELSE 0
                 b1 == x.b + up
                 m1 == x.m + b1 \div MB
             IN  /\ parsed.ok
                 /\ parsed.val = Int64(FALSE, x.t + m1 \div MB, m1 % MB, b1 % MB)
        ELSE ~parsed.ok

\* C12: main has returned (exit code 0) only when every task it started has
\* returned and released what it held: no worker runs and GOMAXPROCS is
\* restored, no buffer is referenced and the GC percent is restored, the
\* temporary directory and its files are gone.
C12_JoinBeforeCompletion ==
    exitCode = 0 =>
        /\ mainPc = "done"
        /\ config.cpu >= 0 =>
              /\ cpuPc = "done"
              /\ \A i \in DOMAIN workers : workers[i] = "done"
              /\ gomaxprocs = oldMaxProcs
        /\ config.memory # <<>> =>
              /\ memPc = "done"
              /\ buffers = <<>> /\ buffer = -1
              /\ gcPercent = oldGCPercent
        /\ config.storage # <<>> =>
              /\ stoPc = "done"
              /\ ~tempDir /\ disk = EmptyDisk
        /\ cpuPc \in {"idle", "done"} /\ memPc \in {"idle", "done"}
        /\ stoPc \in {"idle", "done"}

\* C12 witness: main has returned after a memory task, which held a buffer
\* in its dynamic loop, and a CPU task
C12_Witness ==
    /\ exitCode = 0
    /\ cpuPc = "done" /\ coreCount = NumCPU
    /\ memPc = "done" /\ memMode = "dynamic" /\ memOp # "initError"

(***************************************************************************)
(* The whole program under fair scheduling: the main goroutine takes its   *)
(* next step when it can, and so does one of the tasks' goroutines.        *)
(* Nothing is assumed of the deadline, the signals or the tickers.         *)
(***************************************************************************)
\* the steps of the main goroutine
MainSteps ==
    \/ MainValidate \/ MainStartCpu \/ MainStartMemory \/ MainStartStorage
    \/ MainSelect \/ MainWait

\* the steps of the tasks' goroutines that wait for no tick
TaskSteps ==
    \/ CpuStart \/ CpuReturn
    \/ \E i \in 1..(NumCPU + 1) : WorkerBatch(i) \/ WorkerCheck(i)
    \/ MemoryStart \/ MemoryDynInit \/ MemoryDynStop
    \/ MemoryStaticInit \/ MemoryStaticStop
    \/ StorageStart \/ StorageDynInit \/ StorageDynStop
    \/ StorageStaticWrite \/ StorageStaticStop

Fairness == WF_vars(MainSteps) /\ WF_vars(TaskSteps)

SpecFair == Init /\ [][Next]_vars /\ Fairness

\* C13: once the context is done or a signal waits in sigChan, the process
\* ends: with exit code 1 when a size string is rejected, and otherwise with
\* exit code 0 after every started task has returned.
C13_Terminates ==
    (ctxDone \/ sigChan) ~>
        \/ exitCode = 1
        \/ /\ exitCode = 0
           /\ cpuPc \in {"idle", "done"} /\ memPc \in {"idle", "done"}
           /\ stoPc \in {"idle", "done"}
           /\ \A i \in DOMAIN workers : workers[i] = "done"

\* C13 witness: the context is done and main has returned after every CPU
\* worker and the storage task, which had been running, returned
C13_Witness ==
    /\ exitCode = 0 /\ ctxDone
    /\ cpuPc = "done" /\ Len(workers) = NumCPU
    /\ stoPc = "done" /\ stoMode # "none"

\* C14: when no load type is asked for, main exits with code 1 at its first
\* step, and no task, worker or progress reporter is ever started and no
\* context created.
C14_NoLoadStartsNothing ==
    Requested(config) = {} =>
        /\ cpuPc = "idle" /\ memPc = "idle" /\ stoPc = "idle"
        /\ workers = <<>>
        /\ progPc = "idle"
        /\ ~ctxCreated /\ ~ctxDone
        /\ mainPc \in {"start", "exited"}
        /\ mainPc = "exited" <=> exitCode = 1
        /\ exitCode \in {-1, 1}

\* C14 witness: a run with a valid --timeout and no load type has exited
C14_Witness ==
    /\ config.timeout = "3s" /\ config.cpu < 0
    /\ config.memory = <<>> /\ config.storage = <<>>
    /\ exitCode = 1

(***************************************************************************)
(* A dynamic generator in a closed loop: the probe sees the resource's     *)
(* capacity less what other processes use and what the generator holds.    *)
(* The ticker fires for as long as the context lives.                      *)
(***************************************************************************)
\* the probed resource's size
Capacity == 1500 * MB

\* what other processes may use of it
ExternalValues == {0, 500 * MB, 1000 * MB}

\* the percentages GenerateLoad is called with (negative sizes)
ClosedSizes == {-80, -50}

\* the bytes of every file of the temporary directory
RECURSIVE DiskUsed(_)
DiskUsed(d) ==
    IF DOMAIN d = {} THEN 0
    ELSE LET f == CHOOSE g \in DOMAIN d : TRUE IN d[f] + DiskUsed(RemoveFile(d, f))

InitClosed ==
    /\ ParseIdle
    /\ MainAbsent
    /\ external \in ExternalValues
    /\ tickLimit = MaxTicks
    /\ CpuIdle
    /\ \/ /\ MemoryIdle
          /\ stoPc = "start" /\ stoSize \in ClosedSizes /\ StorageFresh
       \/ /\ StorageIdle
          /\ memPc = "start" /\ memSize \in ClosedSizes /\ MemoryFresh

\* another process takes or gives back some of the resource
ExternalChange ==
    /\ Running
    /\ \E e \in ExternalValues \ {external} : external' = e
    /\ UNCHANGED <<parseVars, mainVars, ctxDone, stoVars, memVars, cpuVars>>

\* MemoryDynInit with the closed loop's probe
MemoryClosedInit ==
    /\ MemoryDynInit
    /\ LET c == memCalculatePercentageSize(-memSize, Capacity - external) IN
       IF c.err THEN memOp' = "initError" ELSE memOp' = "init" /\ memTarget' = c.size

\* a tick is delivered and handled (memory.go 113-162) with the closed
\* loop's probe; the ticks are not counted
MemoryClosedTick ==
    /\ Running
    /\ memPc = "dynLoop"
    /\ \E st \in {memTickBody(memState, -memSize, Capacity - external - totalAllocated)} :
        memSetState(st)
    /\ memTick' = FALSE
    /\ UNCHANGED <<memPc, memMode, memSize, buffer, gcPercent, oldGCPercent, memTicks>>
    /\ UNCHANGED <<parseVars, external, mainVars, ctxDone, stoVars, cpuVars>>

\* StorageDynInit with the closed loop's probe and a write that succeeds
StorageClosedInit ==
    /\ StorageDynInit
    /\ LET c == stoCalculatePercentageSize(-stoSize,
                    [err |-> FALSE, free |-> Capacity - external - DiskUsed(disk)])
       IN  IF c.err THEN stoOp' = "initError"
           ELSE stoOp' = "init" /\ stoTarget' = c.size /\ disk' = PutFile(disk, fileCounter, c.size)

\* a tick is delivered and handled (storage.go 145-210) with the closed
\* loop's probe and no failing operation; every tick lengthens a file, and
\* the ticks are counted up to tickLimit
StorageClosedTick ==
    /\ Running
    /\ stoPc = "dynLoop"
    /\ stoTicks < tickLimit
    /\ \E now \in Clock :
        \E st \in {stoTickBody(stoState, -stoSize,
                               [err |-> FALSE,
                                free |-> Capacity - external - DiskUsed(disk)],
                               "ok", {}, now, TRUE)} :
            stoSetState(st)
    /\ stoTick' = FALSE
    /\ stoTicks' = stoTicks + 1
    /\ UNCHANGED <<stoPc, stoMode, stoSize, tempDir, stoIdx, operationCount>>
    /\ UNCHANGED <<parseVars, external, mainVars, ctxDone, memVars, cpuVars>>

NextClosed ==
    \/ MemoryStart \/ MemoryClosedInit \/ MemoryClosedTick \/ MemoryDynStop
    \/ StorageStart \/ StorageClosedInit \/ StorageClosedTick \/ StorageDynStop
    \/ ExternalChange
    \/ CtxDone

\* the tickers keep firing and the loops keep handling the ticks, and a
\* loop whose context is done returns
SpecClosed ==
    InitClosed /\ [][NextClosed]_vars
        /\ WF_vars(MemoryClosedTick) /\ WF_vars(StorageClosedTick)
        /\ WF_vars(MemoryDynStop) /\ WF_vars(StorageDynStop)

\* C15: once the other processes' use stays constant, a dynamic generator
\* reaches a state from which its held total and its segments change no
\* more.  (The code breaks it: a generator whose floor segment is small
\* adds a segment on one tick and releases it on the next, forever.)
C15_Converges ==
    <>[][external' = external]_vars =>
        /\ <>[][buffers' = buffers /\ totalAllocated' = totalAllocated]_vars
        /\ <>[][currentFiles' = currentFiles /\ totalWritten' = totalWritten]_vars

\* C16: once the context is done, a dynamic generator handles no further
\* tick: it starts no new pass of its ticker case, even when a tick is
\* waiting in ticker.C.  (The code breaks it: the select takes either of
\* two ready cases.)
C16_NoCycleAfterCancel ==
    [][(MemTickStep \/ StoTickStep) => ~ctxDone]_vars

\* C17 as claimed: every tick that neither grows nor shrinks, a tick whose
\* probe or write failed included, performs the liveness step; and no tick
\* both grows and shrinks.
C17_LivenessOnEveryIdleTick ==
    [][/\ MemTickStep =>
             /\ memOp' \in {"grow", "shrink", "hold", "probeError"}
             /\ memOp' \in {"hold", "probeError"} => memLive'
       /\ StoTickStep =>
             /\ stoOp' \in {"grow", "shrink", "hold", "probeError", "growError"}
             /\ stoOp' \in {"hold", "probeError", "growError"} => stoLive']_vars

\* C17 amended: a tick whose recomputation succeeded and that neither grows
\* nor shrinks performs the liveness step; a tick whose recomputation or
\* write failed skips it; and a tick grows or shrinks, never both: the list
\* gets longer by one, or shorter, or stays.
C17_LivenessUnlessFailed ==
    [][/\ MemTickStep =>
             /\ memOp' \in {"grow", "shrink", "hold", "probeError"}
             /\ memOp' = "hold" => (memLive' /\ buffers' = buffers)
             /\ memOp' = "probeError" => ~memLive'
             /\ memOp' = "grow" => SubSeq(buffers', 1, Len(buffers)) = buffers
             /\ memOp' = "shrink" => Len(buffers') < Len(buffers)
       /\ StoTickStep =>
             /\ stoOp' \in {"grow", "shrink", "hold", "probeError", "growError"}
             /\ stoOp' = "hold" => (stoLive' /\ currentFiles' = currentFiles)
             /\ stoOp' \in {"probeError", "growError"} => ~stoLive'
             /\ stoOp' = "grow" => SubSeq(currentFiles', 1, Len(currentFiles)) = currentFiles
             /\ stoOp' = "shrink" => Len(currentFiles') <= Len(currentFiles)]_vars

\* C17 witness: a storage tick with target < held and a single file has
\* released nothing and appended to the file
C17_Witness ==
    /\ stoPc = "dynLoop" /\ stoOp = "hold" /\ stoLive
    /\ stoTarget < totalWritten /\ currentFiles = <<0>>
    /\ disk[0] > totalWritten

C19_InitFailureIsLocal ==
    [][/\ (memPc = "dynInit" /\ memOp' = "initError") =>
             /\ memPc' = "done"
             /\ buffers' = <<>> /\ totalAllocated' = 0
             /\ gcPercent' = gcPercent
             /\ exitCode' = -1
             /\ UNCHANGED <<mainVars, ctxDone, stoVars, cpuVars>>
       /\ (stoPc = "dynInit" /\ stoOp' = "initError") =>
             /\ stoPc' = "done"
             /\ currentFiles' = <<>> /\ totalWritten' = 0
             /\ ~tempDir' /\ disk' = EmptyDisk
             /\ exitCode' = -1
             /\ UNCHANGED <<mainVars, ctxDone, memVars, cpuVars>>
       /\ (memPc # "dynLoop" /\ memPc' = "dynLoop") => Len(buffers') = 1
       /\ (stoPc # "dynLoop" /\ stoPc' = "dynLoop") => Len(currentFiles') = 1
       /\ (cpuPc = "wait" /\ cpuPc' = "done") => ctxDone
       /\ (memPc \in {"dynLoop", "staticLoop"} /\ memPc' = "done") => ctxDone
       /\ (stoPc \in {"dynLoop", "staticLoop"} /\ stoPc' = "done") => ctxDone
       /\ exitCode' = 0 => ctxDone']_vars

\* C19 witness: the memory generator has returned from a failed initial
\* calculation while the CPU workers run and the context is not done
C19_Witness ==
    /\ memPc = "done" /\ memMode = "dynamic" /\ memOp = "initError"
    /\ buffers = <<>>
    /\ cpuPc = "wait" /\ \A i \in DOMAIN workers : workers[i] # "done"
    /\ ~ctxDone /\ exitCode = -1


\* C20: the CPU call starts exactly N workers (NumCPU of them when N is 0);
\* a worker that finds the context done after a batch returns instead of
\* starting another batch, and a returned worker stays returned; the call
\* returns only when all N workers have returned, never before cancellation.
C20_CpuWorkers ==
    [][/\ (cpuPc = "start" /\ cpuPc' = "wait") =>
             /\ Len(workers') = (IF config.cpu = 0 THEN NumCPU ELSE config.cpu)
             /\ Len(workers') > 0
             /\ \A i \in DOMAIN workers' : workers'[i] = "batch"
       /\ cpuPc \in {"wait", "done"} => DOMAIN workers' = DOMAIN workers
       /\ \A i \in DOMAIN workers \cap DOMAIN workers' :
             /\ (ctxDone /\ workers[i] = "check") => workers'[i] # "batch"
             /\ workers[i] = "done" => workers'[i] = "done"
             /\ (workers[i] # "done" /\ workers'[i] = "done") =>
                   (ctxDone /\ workers[i] = "check")
       /\ (cpuPc = "wait" /\ cpuPc' = "done") =>
             /\ ctxDone
             /\ Len(workers) = (IF config.cpu = 0 THEN NumCPU ELSE config.cpu)
             /\ \A i \in DOMAIN workers : workers[i] = "done"
             /\ workers' = workers]_vars

\* C20 witness: asked for 0 cores, the call has returned after NumCPU
\* workers returned
C20_Witness ==
    /\ config.cpu = 0
    /\ cpuPc = "done"
    /\ Len(workers) = NumCPU
    /\ \A i \in DOMAIN workers : workers[i] = "done"
    /\ gomaxprocs = oldMaxProcs


\* C21: when the write phase of the static storage generator has ended, the
\* directory holds exactly numFiles files of equal size whose sizes sum to at
\* most the requested total and to more than the requested total less
\* numFiles bytes.
C21_PartitionWithinRequest ==
    (stoPc = "staticLoop" /\ operationCount = 0) =>
        /\ Cardinality(DOMAIN disk) = numFiles
        /\ \A f, g \in DOMAIN disk : disk[f] = disk[g]
        /\ DiskUsed(disk) <= stoSize
        /\ DiskUsed(disk) > stoSize - numFiles


\* C22: apart from the context no task changes state that another running
\* task sees: while the memory or the storage task runs the processor limit
\* is the one the process started with, and while the CPU or the storage task
\* runs the collector setting is the one the process started with.
C22_TasksIsolated ==
    /\ (memPc \notin {"idle", "done"} \/ stoPc \notin {"idle", "done"}) =>
            gomaxprocs = NumCPU
    /\ (cpuPc \notin {"idle", "done"} \/ stoPc \notin {"idle", "done"}) =>
            gcPercent = 100


\* C23: after every tick of the dynamic storage loop every file of the
\* temporary directory is an element of currentFiles, and the directory
\* holds no more bytes than the files of currentFiles do.
C23_DirectoryIsHeld ==
    (stoPc = "dynLoop" /\ stoTicks >= 1) =>
        /\ \A f \in DOMAIN disk : \E i \in 1..Len(currentFiles) : currentFiles[i] = f
        /\ DiskUsed(disk) <= SumFiles(currentFiles, disk)

=============================================================================
